---- MODULE Spec2Model ----
(***************************************************************************)
(* A model of app.py, the Streamlit dashboard "Cycle Youtube Analytics":   *)
(* the channel resolver (fetch_channel_info), the cached video aggregator  *)
(* (get_recent_videos), the sidebar handlers (API key, add folder, add     *)
(* channel, refresh) and the hierarchical filter of the main script.       *)
(*                                                                         *)
(* Time is counted in seconds.  A browser session owns its session_state   *)
(* (api_key, channels, folders); st.cache_data is one store per process.   *)
(* Strings of the source that are written in Hangul are romanised here,    *)
(* the original literal is given in the comment of each definition.        *)
(***************************************************************************)
EXTENDS Integers, Sequences, FiniteSets, TLC

VARIABLES
    open,       \* the browser sessions that have run the script at least once
    api_key,    \* st.session_state.api_key, per session
    channels,   \* st.session_state.channels, per session: a list of records
    folders,    \* st.session_state.folders, per session: a list of records
    cache,      \* the st.cache_data store of get_recent_videos (per process)
    now,        \* the wall clock, time.time(), in seconds
    ticks,      \* how many times the clock has advanced
    attempt,    \* per session: what the last add-channel click reported
    view,       \* per session: what the last complete script run rendered
    agg         \* one direct call of the aggregator body: input and output

vars == <<open, api_key, channels, folders, cache, now, ticks, attempt, view, agg>>

----------------------------------------------------------------------------
(* Bounds of the model *)

MaxSessions == 2
MaxFolders == 2
MaxChannels == 2
MaxTicks == 1
MaxApiCalls == 3

(* Constants of the program *)

TTL == 600
WEEK == 604800
SHORT_LIMIT == 60

Sessions == 1..MaxSessions

\* 'api_key' starts as '' (line 30); the operator types one of these
ApiKeys == {"K1", "K2"}

\* ids the platform gives to channels
ChannelIds == {"UC1", "UC2"}

\* display names the platform gives to channels
Titles == {"T1"}

\* "기본 폴더", the name of the folder made when there is none (line 81)
DefaultFolderName == "gibon poldeo"

\* "전체 보기", the first entry of the folder filter (line 225)
AllFolders == "jeonche bogi"

\* "전체 채널", the first entry of the channel filter (line 237)
AllChannels == "jeonche chaeneol"

\* what the operator may type as a folder name ('' is refused, line 177)
FolderNames == {"", "A", AllFolders}

\* what the operator may type as a channel: a handle, an id, a name, nothing
Identifiers == {"", "@h", "UC1", "some name"}

\* the identifiers that start with '@' (line 52)
Handles == {"@h"}

\* Python's None, and Some(x) for a value that is there
None == <<>>

Some(x) == <<x>>

----------------------------------------------------------------------------
(* The remote platform, as far as the resolver sees it *)

\* f"f-{int(time.time())}": the prefix and the clock second
FolderId(t) == <<"f-", t>>

\* the uploads playlist the platform reports for a channel
UploadsOf(cid) == <<"UU", cid>>

\* one entry of response['items'] of channels().list: its id, its title and
\* which of the other keys the code reads it carries
Item(cid, title, keys) == [id |-> cid, title |-> title, keys |-> keys]

\* snippet.thumbnails.default.url and contentDetails.relatedPlaylists.uploads
\* (lines 90-91), read with [] and so required
RequiredKeys == {"thumbnail", "uploads"}

\* the entries the platform may answer with: complete ones, and ones that
\* lack one of the required keys
Items ==
    {Item(c, t, RequiredKeys) : c \in ChannelIds, t \in Titles}
        \cup {Item(c, "T1", {"uploads"}) : c \in ChannelIds}
        \cup {Item(c, "T1", {"thumbnail"}) : c \in ChannelIds}

HttpError == [kind |-> "HttpError", items |-> <<>>]

Response(items) == [kind |-> "ok", items |-> items]

\* identifier.startswith('@')
IsHandle(identifier) == identifier \in Handles

\* what request.execute() of channels().list may give: an error, no item, or
\* one item; a lookup by id only ever answers with that id.  With the quota of
\* the credential used up every call is an HttpError.
LookupResponses(identifier, quota) ==
    IF quota <= 0 THEN {HttpError}
    ELSE {HttpError, Response(<<>>)}
            \cup {Response(<<i>>) : i \in {j \in Items : IsHandle(identifier) \/ j.id = identifier}}

\* what search_request.execute() may give (type="channel", maxResults=1)
SearchResponses(quota) ==
    IF quota <= 0 THEN {HttpError}
    ELSE {HttpError, Response(<<>>)} \cup {Response(<<[channelId |-> c]>>) : c \in ChannelIds}

----------------------------------------------------------------------------
(* fetch_channel_info *)

\* what one call hands back: the returned record or None, the folder list
\* as the call leaves it, what it reported, the remote calls it made, and
\* the id of the item it reached line 70 with, if it got that far
Outcome(ret, flds, msg, lookups, searches) ==
    [ret |-> ret, folders |-> flds, msg |-> msg, lookups |-> lookups,
     searches |-> searches, resolved |-> None]

Resolved(o, item) == [o EXCEPT !.resolved = Some(item.id)]

\* lines 73-75 left out: nothing is ever a duplicate
IsDuplicateNever(item, chs) == FALSE

\* the duplicate check of lines 73-75
IsDuplicate(item, chs) == \E i \in 1..Len(chs) : chs[i].id = item.id

\* line 81 left out: no default folder is made
FoldersWithoutDefault(flds, t) == flds

\* the folder list after lines 78-84: a default folder is made when there is none
FoldersAfterTarget(flds, t) ==
    IF flds = <<>> THEN <<[id |-> FolderId(t), name |-> DefaultFolderName]>> ELSE flds

\* target_folder_id of lines 78-84
TargetFolderId(flds, t) ==
    IF flds = <<>> THEN FolderId(t) ELSE flds[1].id

\* lines 70-93: the item found, the duplicate check, the target folder, the record.
\* A key the item lacks raises KeyError, which 'except HttpError' does not catch.
BuildChannel(item, chs, flds, t) ==
    IF IsDuplicate(item, chs)
    THEN Resolved(Outcome(None, flds, "duplicate", 1, 0), item)
    ELSE IF ~(RequiredKeys \subseteq item.keys)
    THEN Resolved(Outcome(None, FoldersAfterTarget(flds, t), "KeyError", 1, 0), item)
    ELSE Resolved(Outcome(Some([id |-> item.id, title |-> item.title,
                                uploads_id |-> UploadsOf(item.id),
                                folder_id |-> TargetFolderId(flds, t)]),
                          FoldersAfterTarget(flds, t), "ok", 1, 0), item)

\* the outcome of a nested call, seen from the call that searched
AfterFallback(o) == [o EXCEPT !.lookups = @ + 1, !.searches = @ + 1]

RECURSIVE fetch_channel_info(_, _, _, _, _)
\* lines 46-97: every outcome the call can have, over the answers of the remote.
\* quota is the number of remote calls the credential still pays for.
fetch_channel_info(identifier, chs, flds, t, quota) ==
    LET AfterSearch(sr) ==
            IF sr.kind = "HttpError" THEN {Outcome(None, flds, "api_error", 1, 1)}
            ELSE IF sr.items = <<>> THEN {Outcome(None, flds, "not_found", 1, 1)}
            ELSE {AfterFallback(o) :
                    o \in fetch_channel_info(sr.items[1].channelId, chs, flds, t, quota - 2)}
        AfterLookup(r) ==
            IF r.kind = "HttpError" THEN {Outcome(None, flds, "api_error", 1, 0)}
            ELSE IF r.items = <<>>
            THEN UNION {AfterSearch(sr) : sr \in SearchResponses(quota - 1)}
            ELSE {BuildChannel(r.items[1], chs, flds, t)}
    IN  \* get_youtube_service gave None (lines 47-48)
        {Outcome(None, flds, "no_service", 0, 0)}
            \cup UNION {AfterLookup(r) : r \in LookupResponses(identifier, quota)}

----------------------------------------------------------------------------
(* The state of a session, and the sidebar handlers *)

\* nothing reported, nothing rendered: a script run is under way
NoAttempt == [kind |-> "none"]

NoView == [rendered |-> FALSE]

NoAgg == [done |-> FALSE]

\* st.cache_data.clear(): every entry of every cached function goes
cache_data_clear(c) == {}

\* line 215 left out: the cache is kept when a channel is appended
CacheKeptAfterAdd(c) == c

\* the cache after a channel was appended (line 215)
CacheAfterAdd(c) == cache_data_clear(c)

\* the cache after the refresh button (line 256)
CacheAfterRefresh(c) == cache_data_clear(c)

\* the value a dict comprehension keeps for a key: the last one written
LastValue(pairs, key) ==
    pairs[CHOOSE i \in 1..Len(pairs) :
            /\ pairs[i][1] = key
            /\ \A j \in (i + 1)..Len(pairs) : pairs[j][1] # key][2]

RECURSIVE DictOf(_, _)
\* a Python dict built from <<key, value>> pairs, as the list of its items:
\* each key once, in the order the keys were first written
DictOf(pairs, k) ==
    IF k > Len(pairs) THEN <<>>
    ELSE IF \E j \in 1..(k - 1) : pairs[j][1] = pairs[k][1]
    THEN DictOf(pairs, k + 1)
    ELSE <<(<<pairs[k][1], LastValue(pairs, pairs[k][1])>>)>> \o DictOf(pairs, k + 1)

\* {f['id']: f['name'] for f in st.session_state.folders} (lines 190, 224)
FolderMap(flds) == DictOf([i \in 1..Len(flds) |-> <<flds[i].id, flds[i].name>>], 1)

\* {c['id']: c['title'] for c in filtered_channels_for_select} (line 243)
ChannelMap(chs) == DictOf([i \in 1..Len(chs) |-> <<chs[i].id, chs[i].title>>], 1)

\* the break of lines 234 and 253 left out: the last item named so wins
LastKeyNamed(dict, name) ==
    IF \E i \in 1..Len(dict) : dict[i][2] = name
    THEN Some(dict[CHOOSE i \in 1..Len(dict) :
                    /\ dict[i][2] = name
                    /\ \A j \in (i + 1)..Len(dict) : dict[j][2] # name][1])
    ELSE None

\* the loops of lines 231-234 and 250-253: the key of the first item of the
\* dict whose value is the name picked, None when there is none
FirstKeyNamed(dict, name) ==
    IF \E i \in 1..Len(dict) : dict[i][2] = name
    THEN Some(dict[CHOOSE i \in 1..Len(dict) :
                    /\ dict[i][2] = name
                    /\ \A j \in 1..(i - 1) : dict[j][2] # name][1])
    ELSE None

\* selected_folder_for_add (lines 191-200): one of the folder ids when there
\* is a folder, None when there is none
FolderSelections(flds) ==
    LET folder_options == FolderMap(flds)
    IN  IF flds = <<>> THEN {None}
        ELSE {Some(folder_options[i][1]) : i \in 1..Len(folder_options)}

\* lines 209-210: the folder chosen in the form overrides the resolver's
WithSelectedFolder(channel_info, selected) ==
    IF selected # None THEN [channel_info EXCEPT !.folder_id = selected[1]] ELSE channel_info

\* lines 166-169: the operator types another API key; the script reruns
SetApiKey(s, k) ==
    /\ s \in open
    /\ k # api_key[s]
    /\ api_key' = [api_key EXCEPT ![s] = k]
    /\ attempt' = [attempt EXCEPT ![s] = NoAttempt]
    /\ view' = [view EXCEPT ![s] = NoView]
    /\ UNCHANGED <<open, channels, folders, cache, now, ticks, agg>>

\* lines 175-183: the add-folder button; an empty name adds nothing
AddFolder(s, name) ==
    /\ s \in open
    /\ Len(folders[s]) < MaxFolders
    /\ folders' = [folders EXCEPT ![s] =
            IF name # "" THEN Append(@, [id |-> FolderId(now), name |-> name]) ELSE @]
    /\ attempt' = [attempt EXCEPT ![s] = NoAttempt]
    /\ view' = [view EXCEPT ![s] = NoView]
    /\ UNCHANGED <<open, api_key, channels, cache, now, ticks, agg>>

\* what the click reported, with the collections as they were before it
Attempt(kind, o, s) ==
    [kind |-> kind, lookups |-> o.lookups, searches |-> o.searches,
     resolved |-> o.resolved,
     channels_before |-> channels[s], folders_before |-> folders[s]]

\* lines 202-216: the add-channel button; quota is the number of calls the
\* platform still serves for the credential
AddChannel(s, identifier, selected, quota) ==
    /\ s \in open
    /\ selected \in FolderSelections(folders[s])
    /\ view' = [view EXCEPT ![s] = NoView]
    /\ IF api_key[s] = ""
       THEN /\ attempt' = [attempt EXCEPT ![s] =
                    Attempt("no_key", Outcome(None, folders[s], "no_key", 0, 0), s)]
            /\ UNCHANGED <<channels, folders, cache>>
       ELSE IF identifier = ""
       THEN /\ attempt' = [attempt EXCEPT ![s] = NoAttempt]
            /\ UNCHANGED <<channels, folders, cache>>
       ELSE \E o \in fetch_channel_info(identifier, channels[s], folders[s], now, quota) :
            /\ o.ret # None => Len(channels[s]) < MaxChannels
            /\ folders' = [folders EXCEPT ![s] = o.folders]
            /\ IF o.ret # None
               THEN /\ channels' = [channels EXCEPT ![s] =
                            Append(@, WithSelectedFolder(o.ret[1], selected))]
                    /\ cache' = CacheAfterAdd(cache)
                    /\ attempt' = [attempt EXCEPT ![s] = Attempt("added", o, s)]
               ELSE /\ attempt' = [attempt EXCEPT ![s] = Attempt(o.msg, o, s)]
                    /\ UNCHANGED <<channels, cache>>
    /\ UNCHANGED <<open, api_key, now, ticks, agg>>

\* lines 255-257: the refresh button
Refresh(s) ==
    /\ s \in open
    /\ cache' = CacheAfterRefresh(cache)
    /\ attempt' = [attempt EXCEPT ![s] = NoAttempt]
    /\ view' = [view EXCEPT ![s] = NoView]
    /\ UNCHANGED <<open, api_key, channels, folders, now, ticks, agg>>

\* time passes: d seconds go by on the clock of time.time() and datetime.now()
Tick(d) ==
    /\ ticks < MaxTicks
    /\ now' = now + d
    /\ ticks' = ticks + 1
    /\ UNCHANGED <<open, api_key, channels, folders, cache, attempt, view, agg>>

\* another browser tab opens the app: lines 29-36 give it a fresh session_state
OpenSession(s) ==
    /\ s \notin open
    /\ open' = open \cup {s}
    /\ UNCHANGED <<api_key, channels, folders, cache, now, ticks, attempt, view, agg>>

----------------------------------------------------------------------------
(* The remote platform, as far as the aggregator sees it *)

DAY == WEEK \div 7

HOUR == DAY \div 24

\* the offsets of the server's local clock from UTC that are tried
TzOffsets == {0 - 8 * HOUR, 0, 9 * HOUR}

\* an ISO-8601 timestamp "....Z" of a response: the instant it writes, or text
\* that datetime.fromisoformat refuses
IsoTime(t) == [valid |-> TRUE, t |-> t]

BadIsoTime == [valid |-> FALSE, t |-> 0]

\* an ISO-8601 duration "PT<m>M<s>S", or text that isodate refuses
IsoDuration(m, sec) == [valid |-> TRUE, m |-> m, s |-> sec]

BadIsoDuration == [valid |-> FALSE, m |-> 0, s |-> 0]

\* datetime.fromisoformat(x.replace('Z', '+00:00')): an aware datetime in UTC
fromisoformat(iso) == [utc |-> iso.t, tzinfo |-> "UTC"]

\* aware.replace(tzinfo=None): the same wall-clock reading, now naive; the
\* reading of a UTC datetime is the UTC instant
replace_tzinfo_none(aware) == aware.utc

\* datetime.now(): the naive reading of the server's local clock
datetime_now(utc_now, tz) == utc_now + tz

\* isodate.parse_duration(x).total_seconds()
total_seconds(dur) == 60 * dur.m + dur.s

\* the ids of the videos a channel may have uploaded
VideoId(cid, n) == <<cid, n>>

\* a timestamp a day before the start of the model's clock, and one a week
\* and four hours before it
RecentTime == 0 - DAY

StaleTime == 0 - (WEEK + 4 * HOUR)

\* one entry of playlistItems().list
PlaylistItem(vid, publishedAt) == [videoId |-> vid, publishedAt |-> publishedAt]

\* one entry of videos().list: the keys the loop of lines 136-153 reads
Detail(vid, publishedAt, duration) ==
    [id |-> vid, publishedAt |-> publishedAt, duration |-> duration]

\* what the platform answers for one uploads playlist: the playlist page (or
\* an error) and the detail records it holds for the videos (or an error)
Feed(playlist, details) == [playlist |-> playlist, details |-> details]

FeedError == [kind |-> "HttpError"]

FeedOk(x) == [kind |-> "ok", items |-> x]

----------------------------------------------------------------------------
(* get_recent_videos *)

RECURSIVE ScanPlaylist(_, _, _)
\* lines 120-124: the ids of the playlist items inside the window; a timestamp
\* that does not parse raises
ScanPlaylist(items, k, one_week_ago) ==
    IF k > Len(items) THEN [ids |-> <<>>, raised |-> FALSE]
    ELSE IF ~items[k].publishedAt.valid THEN [ids |-> <<>>, raised |-> TRUE]
    ELSE LET rest == ScanPlaylist(items, k + 1, one_week_ago)
             published_at == fromisoformat(items[k].publishedAt)
         IN  [ids |-> (IF replace_tzinfo_none(published_at) >= one_week_ago
                       THEN <<items[k].videoId>> ELSE <<>>) \o rest.ids,
              raised |-> rest.raised]

\* lines 137-153: the record appended for one detail record
VideoRecord(item, channel) ==
    [id |-> item.id,
     channel_id |-> channel.id,
     published_at |-> fromisoformat(item.publishedAt),
     duration_sec |-> total_seconds(item.duration),
     is_short |-> total_seconds(item.duration) < SHORT_LIMIT]

RECURSIVE AppendVideos(_, _, _)
\* lines 136-153: the records appended to all_videos, one detail record after
\* the other, until one raises (a duration or a timestamp that does not parse)
AppendVideos(items, k, channel) ==
    IF k > Len(items) THEN [videos |-> <<>>, raised |-> FALSE]
    ELSE IF ~items[k].duration.valid \/ ~items[k].publishedAt.valid
    THEN [videos |-> <<>>, raised |-> TRUE]
    ELSE LET rest == AppendVideos(items, k + 1, channel)
         IN  [videos |-> <<VideoRecord(items[k], channel)>> \o rest.videos,
              raised |-> rest.raised]

RECURSIVE DetailsOf(_, _, _)
\* vid_response['items']: the records of the requested ids the platform holds
DetailsOf(video_ids, k, details) ==
    IF k > Len(video_ids) THEN <<>>
    ELSE (IF video_ids[k] \in DOMAIN details THEN <<details[video_ids[k]]>> ELSE <<>>)
            \o DetailsOf(video_ids, k + 1, details)

\* lines 111-157: what one channel adds to all_videos, and whether its try
\* block ended in the except clause
ChannelVideos(channel, feed, one_week_ago) ==
    IF feed.playlist.kind = "HttpError" THEN [videos |-> <<>>, raised |-> TRUE]
    ELSE LET scan == ScanPlaylist(feed.playlist.items, 1, one_week_ago)
         IN  IF scan.raised THEN [videos |-> <<>>, raised |-> TRUE]
             ELSE IF scan.ids = <<>> THEN [videos |-> <<>>, raised |-> FALSE]
             ELSE IF feed.details.kind = "HttpError" THEN [videos |-> <<>>, raised |-> TRUE]
             ELSE AppendVideos(DetailsOf(scan.ids, 1, feed.details.items), 1, channel)

RECURSIVE AllVideos(_, _, _, _)
\* the loop of line 110 over the channels from the k-th on
AllVideos(chs, k, feeds, one_week_ago) ==
    IF k > Len(chs) THEN <<>>
    ELSE ChannelVideos(chs[k], feeds[chs[k].uploads_id], one_week_ago).videos
            \o AllVideos(chs, k + 1, feeds, one_week_ago)

\* lines 102-159, the body of get_recent_videos: service tells whether
\* get_youtube_service gave a client
get_recent_videos_body(chs, service, feeds, utc_now, tz) ==
    IF chs = <<>> THEN <<>>
    ELSE IF ~service THEN <<>>
    ELSE AllVideos(chs, 1, feeds, datetime_now(utc_now, tz) - WEEK)

----------------------------------------------------------------------------
(* The cache of get_recent_videos and the main script *)

\* the key st.cache_data gives a call (lines 99-101): the arguments are
\* hashed, but one whose name starts with an underscore, _channels, is not
CacheKey(_channels, key) == <<key>>

\* one stored result, with the call that computed it
CacheEntry(chs, key, value, t) ==
    [key |-> CacheKey(chs, key), value |-> value, stamp |-> t,
     for_channels |-> chs, for_key |-> key]

\* the entries a call may be answered from: same key, younger than the ttl
CacheHits(c, chs, key, t) ==
    {e \in c : e.key = CacheKey(chs, key) /\ t - e.stamp < TTL}

\* the cache after a call that found no entry and ran the body
CacheStore(c, chs, key, value, t) ==
    {e \in c : e.key # CacheKey(chs, key) /\ t - e.stamp < TTL}
        \cup {CacheEntry(chs, key, value, t)}

\* the entries of the radio of line 289: "전체", "롱폼(>1분)", "숏폼(<1분)"
TypeFilters == {"jeonche", "longform", "shortform"}

\* lines 273-280: the channel picked wins over the folder picked
HierarchyFilter(videos, chs, selected_channel_id, selected_folder_id) ==
    LET folder_channel_ids ==
            {chs[i].id : i \in {n \in 1..Len(chs) : Some(chs[n].folder_id) = selected_folder_id}}
        OfChannel(v) == v.channel_id = selected_channel_id[1]
        OfFolder(v) == v.channel_id \in folder_channel_ids
    IN  IF selected_channel_id # None THEN SelectSeq(videos, OfChannel)
        ELSE IF selected_folder_id # None THEN SelectSeq(videos, OfFolder)
        ELSE videos

\* lines 291-294
TypeFilter(videos, type_filter) ==
    LET Long(v) == ~v.is_short
        Short(v) == v.is_short
    IN  IF type_filter = "longform" THEN SelectSeq(videos, Long)
        ELSE IF type_filter = "shortform" THEN SelectSeq(videos, Short)
        ELSE videos

\* lines 225-234: the names offered by the folder filter, and the id the
\* name picked stands for
FolderChoices(flds) ==
    LET folder_map == FolderMap(flds)
    IN  <<AllFolders>> \o [i \in 1..Len(folder_map) |-> folder_map[i][2]]

SelectedFolderId(flds, selected_folder_name) ==
    IF selected_folder_name # AllFolders
    THEN FirstKeyNamed(FolderMap(flds), selected_folder_name)
    ELSE None

\* lines 236-244: the channels offered by the channel filter
ChannelsForSelect(chs, selected_folder_id) ==
    LET InFolder(c) == Some(c.folder_id) = selected_folder_id
    IN  IF selected_folder_id # None THEN SelectSeq(chs, InFolder) ELSE chs

ChannelChoices(chs) ==
    LET channel_map == ChannelMap(chs)
    IN  <<AllChannels>> \o [i \in 1..Len(channel_map) |-> channel_map[i][2]]

\* lines 248-253
SelectedChannelId(chs, selected_channel_name) ==
    IF selected_channel_name # AllChannels
    THEN FirstKeyNamed(ChannelMap(chs), selected_channel_name)
    ELSE None

\* the videos on the platform while the dashboard is used: each channel has
\* one video of a day ago, 45 seconds long on UC1 and 2 minutes long elsewhere
AppDuration(cid) == IF cid = "UC1" THEN IsoDuration(0, 45) ELSE IsoDuration(2, 0)

\* what the platform answers for a channel's uploads: an error, or that video
AppFeed(cid, what) ==
    IF what = "error" THEN Feed(FeedError, FeedError)
    ELSE Feed(FeedOk(<<PlaylistItem(VideoId(cid, 1), IsoTime(RecentTime))>>),
              FeedOk(VideoId(cid, 1) :>
                        Detail(VideoId(cid, 1), IsoTime(RecentTime), AppDuration(cid))))

\* the answers for the uploads playlists of the channels of a list
AppFeeds(chs) ==
    {[u \in {chs[n].uploads_id : n \in 1..Len(chs)} |-> AppFeed(u[2], what[u[2]])] :
        what \in [{chs[n].id : n \in 1..Len(chs)} -> {"error", "ok"}]}

\* what a complete run of the script shows
View(i, j, type_filter, videos, filtered, from_cache, computed_for, computed_key, age) ==
    [rendered |-> TRUE, folder_choice |-> i, channel_choice |-> j,
     type_filter |-> type_filter, videos |-> videos, filtered |-> filtered,
     from_cache |-> from_cache, computed_for |-> computed_for,
     computed_key |-> computed_key, age |-> age]

\* a run of the whole script with no button pressed (lines 224-294): the
\* operator has picked the i-th folder entry, the j-th channel entry and a
\* format; the videos come from the cache or from the platform
Render(s, i, j, type_filter) ==
    /\ s \in open
    /\ i \in 1..(Len(folders[s]) + 1)
    /\ j \in 1..(Len(channels[s]) + 1)
    /\ i \in 1..Len(FolderChoices(folders[s]))
    /\ LET selected_folder_id == SelectedFolderId(folders[s], FolderChoices(folders[s])[i])
           for_select == ChannelsForSelect(channels[s], selected_folder_id)
           channel_choices == ChannelChoices(for_select)
       IN  /\ j \in 1..Len(channel_choices)
           /\ LET selected_channel_id == SelectedChannelId(for_select, channel_choices[j])
                  fetch == api_key[s] # "" /\ channels[s] # <<>>
                  hits == IF fetch THEN CacheHits(cache, channels[s], api_key[s], now) ELSE {}
                  Shown(videos) ==
                      TypeFilter(HierarchyFilter(videos, channels[s], selected_channel_id,
                                                 selected_folder_id), type_filter)
              IN  IF hits # {}
                  THEN \E e \in hits :
                        /\ view' = [view EXCEPT ![s] =
                                View(i, j, type_filter, e.value, Shown(e.value), TRUE,
                                     e.for_channels, e.for_key, now - e.stamp)]
                        /\ UNCHANGED cache
                  ELSE IF fetch
                  THEN \E service \in BOOLEAN, feeds \in AppFeeds(channels[s]), tz \in TzOffsets :
                        LET videos == get_recent_videos_body(channels[s], service, feeds, now, tz)
                        IN  /\ view' = [view EXCEPT ![s] =
                                    View(i, j, type_filter, videos, Shown(videos), FALSE,
                                         channels[s], api_key[s], 0)]
                            /\ cache' = CacheStore(cache, channels[s], api_key[s], videos, now)
                  ELSE /\ view' = [view EXCEPT ![s] =
                                View(i, j, type_filter, <<>>, <<>>, FALSE,
                                     channels[s], api_key[s], 0)]
                       /\ UNCHANGED cache
    /\ attempt' = [attempt EXCEPT ![s] = NoAttempt]
    /\ UNCHANGED <<open, api_key, channels, folders, now, ticks, agg>>

----------------------------------------------------------------------------
(* The dashboard used from one browser session *)

Init ==
    /\ open = {1}
    /\ api_key = [s \in Sessions |-> ""]
    /\ channels = [s \in Sessions |-> <<>>]
    /\ folders = [s \in Sessions |-> <<>>]
    /\ cache = {}
    /\ now = 0
    /\ ticks = 0
    /\ attempt = [s \in Sessions |-> NoAttempt]
    /\ view = [s \in Sessions |-> NoView]
    /\ agg = NoAgg

\* the operator's moves on the collections, with one credential: the key,
\* folders, channels, and the clock moving on by seconds
Next ==
    \/ \E s \in Sessions, k \in {"", "K1"} : SetApiKey(s, k)
    \/ \E s \in Sessions, name \in FolderNames : AddFolder(s, name)
    \/ \E s \in Sessions, identifier \in Identifiers :
        \E selected \in FolderSelections(folders[s]) :
            AddChannel(s, identifier, selected, MaxApiCalls)
    \/ Tick(1)

Spec == Init /\ [][Next]_vars

(* The cache in use: two credentials, folders, channels, refresh, script  *)
(* runs and cache entries running out.  The operator adds channels by     *)
(* handle into the folder the form offers first and leaves the filters    *)
(* alone; the platform serves the lookup of a click and nothing after it. *)

\* the entry the folder select box of the form shows first
FirstFolderSelection(flds) ==
    IF flds = <<>> THEN None ELSE Some(FolderMap(flds)[1][1])

NextCache ==
    \/ \E s \in Sessions, k \in ApiKeys \cup {""} : SetApiKey(s, k)
    \/ \E s \in Sessions : AddFolder(s, "A")
    \/ \E s \in Sessions : AddChannel(s, "@h", FirstFolderSelection(folders[s]), 1)
    \/ \E s \in Sessions : Refresh(s)
    \/ \E s \in Sessions : Render(s, 1, 1, "jeonche")
    \/ Tick(TTL)

SpecCache == Init /\ [][NextCache]_vars

(* The same, with a second browser session on the same server process and *)
(* one credential                                                         *)

NextMulti ==
    \/ \E s \in Sessions : OpenSession(s)
    \/ \E s \in Sessions : SetApiKey(s, "K1")
    \/ \E s \in Sessions : AddChannel(s, "@h", FirstFolderSelection(folders[s]), 1)
    \/ \E s \in Sessions : Refresh(s)
    \/ \E s \in Sessions : Render(s, 1, 1, "jeonche")
    \/ Tick(TTL)

SpecMulti == Init /\ [][NextMulti]_vars

(* The folder filter in use: one credential, folders of any name, channels *)
(* put into any folder, script runs with any folder picked and the other   *)
(* filters left alone                                                      *)

NextFilter ==
    \/ \E s \in Sessions : SetApiKey(s, "K1")
    \/ \E s \in Sessions, name \in FolderNames : AddFolder(s, name)
    \/ \E s \in Sessions :
        \E selected \in FolderSelections(folders[s]) : AddChannel(s, "@h", selected, 1)
    \/ \E s \in Sessions, i \in 1..(MaxFolders + 1) : Render(s, i, 1, "jeonche")
    \/ Tick(1)

SpecFilter == Init /\ [][NextFilter]_vars

(* The aggregator called once, on an empty cache, with the channels of a  *)
(* session and any answers of the platform                                *)

\* a channel as add-channel leaves it in a session whose first folder was
\* made at the start of the clock
AggChannel(cid) ==
    [id |-> cid, title |-> "T1", uploads_id |-> UploadsOf(cid), folder_id |-> FolderId(0)]

\* the channel lists a session can hold: one or two channels, ids distinct
AggChannelLists ==
    {<<AggChannel(c)>> : c \in ChannelIds}
        \cup {<<AggChannel(p[1]), AggChannel(p[2])>> :
                p \in {q \in ChannelIds \X ChannelIds : q[1] # q[2]}}

\* the playlist pages tried for a channel: an error, an empty page, an
\* upload whose timestamp does not parse, one or two uploads inside or
\* outside the window
AggPlaylists(cid) ==
    {FeedError, FeedOk(<<>>), FeedOk(<<PlaylistItem(VideoId(cid, 1), BadIsoTime)>>)}
        \cup {FeedOk(<<PlaylistItem(VideoId(cid, 1), IsoTime(t))>>) : t \in {RecentTime, StaleTime}}
        \cup {FeedOk(<<PlaylistItem(VideoId(cid, 1), IsoTime(RecentTime)),
                       PlaylistItem(VideoId(cid, 2), IsoTime(u))>>) :
                u \in {RecentTime, StaleTime}}

\* the detail records tried for a video: published a day ago and 45 seconds
\* long, published more than a week ago and 2 minutes long, or with a
\* duration that does not parse
ShortRecent(vid) == Detail(vid, IsoTime(RecentTime), IsoDuration(0, 45))

LongStale(vid) == Detail(vid, IsoTime(StaleTime), IsoDuration(2, 0))

BadDuration(vid) == Detail(vid, IsoTime(RecentTime), BadIsoDuration)

\* the detail records tried for the two videos of a channel
AggDetails(cid) ==
    LET v1 == VideoId(cid, 1)
        v2 == VideoId(cid, 2)
    IN  {(v1 :> ShortRecent(v1)) @@ (v2 :> ShortRecent(v2)),
         (v1 :> ShortRecent(v1)) @@ (v2 :> BadDuration(v2)),
         (v1 :> BadDuration(v1)) @@ (v2 :> ShortRecent(v2)),
         (v1 :> LongStale(v1)) @@ (v2 :> ShortRecent(v2))}

\* the answers tried for one channel
AggFeedsOf(cid) ==
    {Feed(p, FeedError) : p \in AggPlaylists(cid)}
        \cup {Feed(p, FeedOk(d)) : p \in AggPlaylists(cid), d \in AggDetails(cid)}

\* the answers tried for the channels of a list, by uploads playlist
AggFeeds(chs) ==
    IF Len(chs) = 1
    THEN {(chs[1].uploads_id :> f) : f \in AggFeedsOf(chs[1].id)}
    ELSE {((chs[1].uploads_id :> f) @@ (chs[2].uploads_id :> g)) :
            f \in AggFeedsOf(chs[1].id), g \in AggFeedsOf(chs[2].id)}

\* one call get_recent_videos(chs, key) that finds the cache empty: the
\* body runs and its result is stored
Aggregate(chs, key, service, feeds, tz) ==
    /\ ~agg.done
    /\ CacheHits(cache, chs, key, now) = {}
    /\ LET videos == get_recent_videos_body(chs, service, feeds, now, tz)
       IN  /\ agg' = [done |-> TRUE, channels |-> chs, service |-> service,
                      feeds |-> feeds, utc_now |-> now, tz |-> tz, videos |-> videos]
           /\ cache' = CacheStore(cache, chs, key, videos, now)
    /\ UNCHANGED <<open, api_key, channels, folders, now, ticks, attempt, view>>

NextAgg ==
    \E chs \in AggChannelLists, service \in BOOLEAN, tz \in TzOffsets :
        \E feeds \in AggFeeds(chs) : Aggregate(chs, "K1", service, feeds, tz)

SpecAgg == Init /\ [][NextAgg]_vars

----------------------------------------------------------------------------
(* Properties of the channel and folder collections *)

ChannelIdsOf(chs) == {chs[i].id : i \in 1..Len(chs)}

\* the outcomes of an add-channel click that add nothing
Failures == {"no_service", "not_found", "duplicate", "api_error", "KeyError"}

\* C1: no two records of a session's channel list have the same id, and a
\* click that resolves to an id already in the list is reported as a
\* duplicate and leaves the list as it was
C1_UniqueChannelIds ==
    \A s \in Sessions :
        /\ \A i, j \in 1..Len(channels[s]) :
                i # j => channels[s][i].id # channels[s][j].id
        /\ (/\ attempt[s].kind # "none"
            /\ attempt[s].resolved # None
            /\ attempt[s].resolved[1] \in ChannelIdsOf(attempt[s].channels_before))
                => /\ attempt[s].kind = "duplicate"
                   /\ channels[s] = attempt[s].channels_before

\* C1, its case: a channel reached through the name search is already listed
C1_Witness ==
    /\ attempt[1].kind = "duplicate"
    /\ attempt[1].searches = 1
    /\ Len(channels[1]) = 2

\* C2 as stated: the first channel added with no folder leaves exactly one
\* folder, named "Default", and the channel in it
C2_DefaultFolderNamedDefault ==
    \A s \in Sessions :
        (attempt[s].kind = "added" /\ attempt[s].folders_before = <<>>)
            => /\ Len(folders[s]) = 1
               /\ folders[s][1].name = "Default"
               /\ channels[s][Len(channels[s])].folder_id = folders[s][1].id

\* C2, amended: the first channel added with no folder leaves exactly one
\* folder, named by the literal of line 81, and the channel in it
C2_DefaultFolderCreated ==
    \A s \in Sessions :
        (attempt[s].kind = "added" /\ attempt[s].folders_before = <<>>)
            => /\ Len(folders[s]) = 1
               /\ folders[s][1].name = DefaultFolderName
               /\ channels[s][Len(channels[s])].folder_id = folders[s][1].id

C2_Witness ==
    /\ attempt[1].kind = "added"
    /\ attempt[1].folders_before = <<>>
    /\ Len(channels[1]) = 1
    /\ Len(folders[1]) = 1

\* C3: a click that ends in a failure of the resolver leaves the channel
\* list and the folder list as they were before it
C3_FailureLeavesCollections ==
    \A s \in Sessions :
        attempt[s].kind \in Failures
            => /\ channels[s] = attempt[s].channels_before
               /\ folders[s] = attempt[s].folders_before

\* C9: one click issues at most one search and at most two channel lookups
C9_AtMostOneFallback ==
    \A s \in Sessions :
        attempt[s].kind # "none"
            => attempt[s].searches <= 1 /\ attempt[s].lookups <= 2

\* C10: the ids of a session's folders are pairwise distinct, and the
\* folder_id of every channel is the id of exactly one folder
C10_FolderIdsDistinct ==
    \A s \in Sessions :
        /\ \A i, j \in 1..Len(folders[s]) :
                i # j => folders[s][i].id # folders[s][j].id
        /\ \A n \in 1..Len(channels[s]) :
                Cardinality({i \in 1..Len(folders[s]) :
                                folders[s][i].id = channels[s][n].folder_id}) = 1

----------------------------------------------------------------------------
(* Properties of the cache and of the folder filter *)

\* C6: a script run is answered from the cache only by an entry computed for
\* the same channel list and the same credential, younger than the ttl
C6_CacheKeyedByChannelsAndKey ==
    \A s \in Sessions :
        (view[s].rendered /\ view[s].from_cache)
            => /\ view[s].computed_for = channels[s]
               /\ view[s].computed_key = api_key[s]
               /\ view[s].age < TTL

VideosOfFolder(videos, chs, fid) ==
    LET InFolder(v) == \E n \in 1..Len(chs) : chs[n].id = v.channel_id /\ chs[n].folder_id = fid
    IN  SelectSeq(videos, InFolder)

\* C8 as stated: with the entry of folder F picked, no channel picked and
\* every format, the run shows exactly the videos of the channels of F
C8_FolderFilterById ==
    \A s \in Sessions :
        (view[s].rendered /\ view[s].folder_choice > 1 /\ view[s].channel_choice = 1
            /\ view[s].type_filter = "jeonche")
            => view[s].filtered =
                VideosOfFolder(view[s].videos, channels[s],
                               FolderMap(folders[s])[view[s].folder_choice - 1][1])

\* C8, as the code has it: the run shows exactly the videos of the channels of the first
\* folder that carries the name of the entry picked, and every video when
\* that name is the name of the entry for all folders
C8_FolderFilterByFirstName ==
    \A s \in Sessions :
        (view[s].rendered /\ view[s].folder_choice > 1 /\ view[s].channel_choice = 1
            /\ view[s].type_filter = "jeonche")
            => LET folder_map == FolderMap(folders[s])
                   name == folder_map[view[s].folder_choice - 1][2]
                   first == CHOOSE i \in 1..Len(folder_map) :
                                /\ folder_map[i][2] = name
                                /\ \A k \in 1..(i - 1) : folder_map[k][2] # name
               IN  view[s].filtered =
                        IF name = AllFolders THEN view[s].videos
                        ELSE VideosOfFolder(view[s].videos, channels[s], folder_map[first][1])

\* C8, its case: two folders with channels and videos, the second one
\* picked, and only its channel's video shown
C8_Witness ==
    /\ view[1].rendered
    /\ view[1].folder_choice = 3
    /\ Len(view[1].videos) = 2
    /\ Len(view[1].filtered) = 1
    /\ channels[1][1].folder_id # channels[1][2].folder_id
    /\ view[1].filtered[1].channel_id = channels[1][2].id

----------------------------------------------------------------------------
(* Properties of the aggregator *)

\* the positions of the channels whose try block ended in the except clause
FailedChannels(chs, feeds, one_week_ago) ==
    {k \in 1..Len(chs) : ChannelVideos(chs[k], feeds[chs[k].uploads_id], one_week_ago).raised}

\* C4: the result holds no video of a channel one of whose steps failed, and
\* is what the other channels alone would have given
C4_FailedChannelContributesNothing ==
    agg.done =>
        LET one_week_ago == datetime_now(agg.utc_now, agg.tz) - WEEK
            failed == FailedChannels(agg.channels, agg.feeds, one_week_ago)
            Sound(c) == \A k \in failed : agg.channels[k] # c
            rest == SelectSeq(agg.channels, Sound)
        IN  /\ \A i \in 1..Len(agg.videos), k \in failed :
                    agg.videos[i].channel_id # agg.channels[k].id
            /\ agg.service =>
                    agg.videos = get_recent_videos_body(rest, agg.service, agg.feeds,
                                                        agg.utc_now, agg.tz)

\* C5: every video of the result was published, by the timestamp stored in
\* it, no earlier than seven days before the call, counted in UTC
C5_PublishedWithinWeek ==
    agg.done =>
        \A i \in 1..Len(agg.videos) :
            replace_tzinfo_none(agg.videos[i].published_at) >= agg.utc_now - WEEK

====
